---- MODULE Spec2Model ----
(***************************************************************************)
(* Model of the PCP/TOC planning engine (engine/engine_pcp.py) and of the   *)
(* KPI report of the enterprise system (engine/pcp_empresarial.py).         *)
(*                                                                         *)
(* Numbers.  The engine works on float64 columns.  The inputs drawn here    *)
(* are small integers and the efficiency is 1 or 1/2, so every product,     *)
(* quotient by the efficiency, sum and difference the engine computes is    *)
(* exactly representable and is modelled by exact integer arithmetic.  The  *)
(* one quotient that is not an integer, utilizacao = carga / capacidade, is *)
(* kept as the exact fraction [num, den]; den = 0 stands for what float64   *)
(* division by zero yields (inf for num > 0, NaN for num = 0).              *)
(***************************************************************************)
EXTENDS Integers, Sequences, FiniteSets, TLC

(***************************************************************************)
(* Bounds of the input space.                                              *)
(***************************************************************************)
\* largest number of rows of the uploaded sheet
MaxRows == 2

\* order identifiers (column "pedido")
Pedidos == {"A", "B"}

\* resource identifiers (column "recurso"), listed in lexicographic order
Recursos == <<"CNC_1", "CNC_2">>

\* unit processing times (column "tempo_processamento")
Tempos == {0, 1}

\* raw quantities (column "quantidade") as decimal numbers <<integer part,
\* first decimal digit>>: 2.5
Quantidades == {<<2, 5>>}

\* due dates (column "data_entrega") as day numbers
Datas == {1, 2}

\* values a caller may give under each key of parametros (a key may also be
\* absent); the efficiency 0.5 is the exact fraction 1/2
HorasPossiveis == {0, 2}
EficienciasPossiveis == {[num |-> 1, den |-> 2]}
SetupsPossiveis == {1}
PoliticasPossiveis == {"global_tardiness", "fifo"}

(***************************************************************************)
(* Program constants.                                                      *)
(***************************************************************************)
\* parametros.get("horas_disponiveis_dia", 8.0)
DefaultHorasDisponiveis == 8
\* parametros.get("eficiencia_media", 1.0)
DefaultEficiencia == [num |-> 1, den |-> 1]
\* parametros.get("tempo_setup_medio", 0.0)
DefaultSetup == 0

colunas_obrigatorias ==
    {"pedido", "recurso", "tempo_processamento", "quantidade", "data_entrega"}

\* columns a sheet may carry besides the required ones
ColunasExtras == {"cliente"}

\* the scheduling policies the specification names
PoliticasConhecidas == {"drum_edd", "global_tardiness"}

\* a local variable that was not assigned yet, or a value not produced; an
\* assigned one is the one-element sequence <<v>>
Indefinido == <<>>
Definido(x) == x # <<>>
Valor(x) == x[1]

VARIABLES
    df,            \* the input DataFrame: [columns, rows]
    parametros,    \* the parametros dict (a function on the keys present)
    pc,            \* position inside executar_ciclo_pcp
    trabalho,      \* the working copy of df (df = df.copy() and its new columns)
    carga_recurso, \* the per-resource load table
    gargalo,       \* the bottleneck resource, Indefinido before it is assigned
    ranking,       \* the ranking table
    atraso_total,  \* the total delay, Indefinido before it is assigned
    resultado,     \* the returned dict, Indefinido while nothing was returned
    erro,          \* the exception raised, Indefinido while none was
    pedidos,       \* SistemaPCP_Empresarial.pedidos: the list of orders
    recursos,      \* SistemaPCP_Empresarial.recursos: dict name -> resource
    resposta,      \* the context upload_pedidos renders, Indefinido before it returns
    recurso_gargalo_atual, \* gestor_gargalo.recurso_gargalo_atual
    retorno        \* the value the last method call on the system returned

varsEngine == <<df, parametros, pc, trabalho, carga_recurso, gargalo, ranking,
                atraso_total, resultado, erro>>

varsSistema == <<pedidos, recursos, recurso_gargalo_atual, retorno>>

varsApi == <<resposta>>

vars == <<varsEngine, varsSistema, varsApi>>

(***************************************************************************)
(* Helpers.                                                                *)
(***************************************************************************)
Range(s) == {s[i] : i \in DOMAIN s}

RECURSIVE SumSeq(_)
SumSeq(s) == IF s = <<>> THEN 0 ELSE Head(s) + SumSeq(Tail(s))

\* position of a resource identifier in lexicographic order
OrdemLexicografica(r) == CHOOSE i \in DOMAIN Recursos : Recursos[i] = r

\* sequences over S of length at most n
SeqAte(S, n) == UNION {[1..k -> S] : k \in 0..n}

\* all orderings of the index set 1..n
Permutacoes(n) == {p \in [1..n -> 1..n] : \A i, j \in 1..n : i # j => p[i] # p[j]}

(***************************************************************************)
(* The input space.                                                        *)
(***************************************************************************)
Linhas ==
    [ pedido : Pedidos, recurso : Range(Recursos), tempo_processamento : Tempos,
      quantidade : Quantidades, data_entrega : Datas ]

\* a sheet with every required column and up to MaxRows rows, or a sheet
\* that lacks some required column (its rows are never read)
DataFrames ==
    {[columns |-> colunas_obrigatorias \cup x, rows |-> rs] :
        x \in SUBSET ColunasExtras, rs \in SeqAte(Linhas, MaxRows)}
    \cup
    {[columns |-> c \cup x, rows |-> <<>>] :
        c \in (SUBSET colunas_obrigatorias) \ {colunas_obrigatorias},
        x \in SUBSET ColunasExtras}

\* an optional entry: absent (<<>>) or one of the values of S
Opcional(S) == {<<>>} \cup {<<v>> : v \in S}

\* the dict holding exactly the entries that are present
Dict(h, e, s, p) ==
    LET presentes == {k \in {"horas_disponiveis_dia", "eficiencia_media",
                               "tempo_setup_medio", "scheduling_policy"} :
                        CASE k = "horas_disponiveis_dia" -> h # <<>>
                          [] k = "eficiencia_media"      -> e # <<>>
                          [] k = "tempo_setup_medio"     -> s # <<>>
                          [] OTHER                       -> p # <<>>}
    IN  [k \in presentes |->
            CASE k = "horas_disponiveis_dia" -> h[1]
              [] k = "eficiencia_media"      -> e[1]
              [] k = "tempo_setup_medio"     -> s[1]
              [] OTHER                       -> p[1]]

ParametrosPossiveis ==
    {Dict(h, e, s, p) : h \in Opcional(HorasPossiveis),
                        e \in Opcional(EficienciasPossiveis),
                        s \in Opcional(SetupsPossiveis),
                        p \in Opcional(PoliticasPossiveis)}

\* dict.get(key, default)
Get(d, key, default) == IF key \in DOMAIN d THEN d[key] ELSE default

(***************************************************************************)
(* executar_ciclo_pcp, step 1: validation of the columns.                   *)
(***************************************************************************)
\* ColunasValidas with "any" in place of "all": one required column suffices
ColunasValidasAlguma(columns) == colunas_obrigatorias \cap columns # {}

\* colunas_obrigatorias.issubset(df.columns)
ColunasValidas(columns) == colunas_obrigatorias \subseteq columns

\* the ValueError of the validation: its message prints the expected set and
\* the received set
ErroValidacao(columns) ==
    [ tipo |-> "ValueError", esperado |-> colunas_obrigatorias,
      recebido |-> columns ]

ValidarColunas ==
    /\ pc = "inicio"
    /\ IF ColunasValidas(df.columns)
       THEN /\ pc' = "validado"
            /\ erro' = erro
       ELSE /\ pc' = "erro"
            /\ erro' = <<ErroValidacao(df.columns)>>
    /\ UNCHANGED <<df, parametros, trabalho, carga_recurso, gargalo, ranking,
                   atraso_total, resultado>>
    /\ UNCHANGED <<varsSistema, varsApi>>

(***************************************************************************)
(* Step 1, continued: df = df.copy() and the type conversions.             *)
(***************************************************************************)
\* an empty cell of the sheet, read as NaN
CelulaVazia == <<>>

\* astype(int) of a non-negative decimal number: truncation
AsTypeInt(q) == q[1]

\* astype(int) on a column that holds a NaN
ErroConversao ==
    [ tipo |-> "IntCastingNaNError",
      mensagem |-> "Cannot convert non-finite values (NA or inf) to integer" ]

\* astype(float) of an integer: the same number
AsTypeFloat(t) == t

\* pd.to_datetime of a date: the timestamp of its midnight, in hours
ToDatetime(d) == d * 24

ConverterLinha(row) ==
    [ pedido |-> row.pedido, recurso |-> row.recurso,
      tempo_processamento |-> AsTypeFloat(row.tempo_processamento),
      quantidade |-> AsTypeInt(row.quantidade),
      data_entrega |-> ToDatetime(row.data_entrega) ]

ConverterTipos ==
    /\ pc = "validado"
    /\ IF \E i \in DOMAIN df.rows : df.rows[i].quantidade = CelulaVazia
       THEN /\ pc' = "erro"
            /\ erro' = <<ErroConversao>>
            /\ trabalho' = trabalho
       ELSE /\ trabalho' = [i \in DOMAIN df.rows |-> ConverterLinha(df.rows[i])]
            /\ pc' = "convertido"
            /\ erro' = erro
    /\ UNCHANGED <<df, parametros, carga_recurso, gargalo, ranking,
                   atraso_total, resultado>>
    /\ UNCHANGED <<varsSistema, varsApi>>

(***************************************************************************)
(* Steps 2 to 4: parameters, required time, load and utilization.          *)
(***************************************************************************)
horas_disponiveis ==
    Get(parametros, "horas_disponiveis_dia", DefaultHorasDisponiveis)
eficiencia == Get(parametros, "eficiencia_media", DefaultEficiencia)
setup == Get(parametros, "tempo_setup_medio", DefaultSetup)

\* df["quantidade"] * df["tempo_processamento"]
TempoRequerido(row) == row.quantidade * row.tempo_processamento

\* x / e for the fraction e = num/den (exact for the efficiencies drawn)
DividirPor(x, e) == (x * e.den) \div e.num

\* TempoAjustado with the efficiency multiplied instead of divided
TempoAjustadoVezes(requerido, ef, st) == ((requerido * ef.num) \div ef.den) + st

\* (df["tempo_requerido"] / eficiencia) + setup
TempoAjustado(requerido, ef, st) == DividirPor(requerido, ef) + st

ComTempos(row) ==
    [ pedido |-> row.pedido, recurso |-> row.recurso,
      tempo_processamento |-> row.tempo_processamento,
      quantidade |-> row.quantidade, data_entrega |-> row.data_entrega,
      tempo_requerido |-> TempoRequerido(row),
      tempo_ajustado |-> TempoAjustado(TempoRequerido(row), eficiencia, setup) ]

\* the group keys of df.groupby("recurso"), in sorted order
Grupos(rows) ==
    SelectSeq(Recursos, LAMBDA r : \E i \in DOMAIN rows : rows[i].recurso = r)

\* the rows of one group
DoGrupo(rows, r) == SelectSeq(rows, LAMBDA row : row.recurso = r)

\* groupby("recurso")["tempo_ajustado"].sum() for one group
CargaTotal(rows, r) ==
    SumSeq([i \in DOMAIN DoGrupo(rows, r) |-> DoGrupo(rows, r)[i].tempo_ajustado])

\* carga_total / capacidade in float64: the exact fraction, inf or NaN
Utilizacao(carga, capacidade) == [num |-> carga, den |-> capacidade]

CargaRecurso(rows, capacidade) ==
    [g \in DOMAIN Grupos(rows) |->
        [ recurso |-> Grupos(rows)[g],
          carga_total |-> CargaTotal(rows, Grupos(rows)[g]),
          capacidade |-> capacidade,
          utilizacao |-> Utilizacao(CargaTotal(rows, Grupos(rows)[g]), capacidade) ]]

CalcularCarga ==
    /\ pc = "convertido"
    /\ trabalho' = [i \in DOMAIN trabalho |-> ComTempos(trabalho[i])]
    /\ carga_recurso' = CargaRecurso(trabalho', horas_disponiveis)
    /\ pc' = "carga"
    /\ UNCHANGED <<df, parametros, gargalo, ranking, atraso_total, resultado,
                   erro>>
    /\ UNCHANGED <<varsSistema, varsApi>>

(***************************************************************************)
(* Step 5: the bottleneck.                                                 *)
(***************************************************************************)
\* float64 values of a utilization (capacities drawn are never negative)
IsNaN(u) == u.den = 0 /\ u.num = 0
IsInf(u) == u.den = 0 /\ u.num > 0

\* u > v for two utilizations that are not NaN
Maior(u, v) ==
    IF IsInf(u) THEN ~IsInf(v)
    ELSE IF IsInf(v) THEN FALSE
    ELSE u.num * v.den > v.num * u.den

\* sort_values("utilizacao", ascending=False): pandas sorts with its default
\* kind "quicksort", which is not stable, so rows of equal utilization may
\* come out in any order; NaN rows go last, in their original order.  The
\* result is any of these orderings p (p[k] is the row placed k-th).
SortValuesUtilizacao(cr) ==
    {p \in Permutacoes(Len(cr)) :
        \A i, j \in 1..Len(cr) : i < j =>
            IF IsNaN(cr[p[i]].utilizacao)
            THEN IsNaN(cr[p[j]].utilizacao) /\ p[i] < p[j]
            ELSE IsNaN(cr[p[j]].utilizacao)
                 \/ ~Maior(cr[p[j]].utilizacao, cr[p[i]].utilizacao)}

\* .iloc[0] on an empty table
ErroIndice ==
    [ tipo |-> "IndexError",
      mensagem |-> "single positional indexer is out-of-bounds" ]

IdentificarGargalo ==
    /\ pc = "carga"
    /\ IF carga_recurso = <<>>
       THEN /\ pc' = "erro"
            /\ erro' = <<ErroIndice>>
            /\ gargalo' = gargalo
       ELSE /\ \E p \in SortValuesUtilizacao(carga_recurso) :
                  gargalo' = <<carga_recurso[p[1]].recurso>>
            /\ pc' = "gargalo"
            /\ erro' = erro
    /\ UNCHANGED <<df, parametros, trabalho, carga_recurso, ranking,
                   atraso_total, resultado>>
    /\ UNCHANGED <<varsSistema, varsApi>>

(***************************************************************************)
(* Step 6: the ranking (EDD at the bottleneck).                            *)
(***************************************************************************)
\* df[df["recurso"] == gargalo]
NoGargalo(rows, g) == SelectSeq(rows, LAMBDA row : row.recurso = g)

\* sort_values("data_entrega"): again the default, unstable "quicksort":
\* any ordering of the rows with non-decreasing due dates
SortValuesDataEntrega(rows) ==
    {p \in Permutacoes(Len(rows)) :
        \A i, j \in 1..Len(rows) : i < j =>
            rows[p[i]].data_entrega <= rows[p[j]].data_entrega}

\* Series.cumsum(): the running sums of a sequence
CumSum(s) == [i \in DOMAIN s |-> SumSeq(SubSeq(s, 1, i))]

\* reset_index(drop=True), ordem = index + 1, tempo_acumulado = cumsum
Ordenado(rows, p) ==
    LET sorted == [k \in DOMAIN rows |-> rows[p[k]]]
        acum == CumSum([k \in DOMAIN sorted |-> sorted[k].tempo_ajustado])
    IN  [k \in DOMAIN sorted |->
            [ pedido |-> sorted[k].pedido, recurso |-> sorted[k].recurso,
              tempo_processamento |-> sorted[k].tempo_processamento,
              quantidade |-> sorted[k].quantidade,
              data_entrega |-> sorted[k].data_entrega,
              tempo_requerido |-> sorted[k].tempo_requerido,
              tempo_ajustado |-> sorted[k].tempo_ajustado,
              ordem |-> (k - 1) + 1,
              tempo_acumulado |-> acum[k] ]]

RankingTOC ==
    /\ pc = "gargalo"
    /\ \E p \in SortValuesDataEntrega(NoGargalo(trabalho, Valor(gargalo))) :
          ranking' = Ordenado(NoGargalo(trabalho, Valor(gargalo)), p)
    /\ pc' = "ranking"
    /\ UNCHANGED <<df, parametros, trabalho, carga_recurso, gargalo,
                   atraso_total, resultado, erro>>
    /\ UNCHANGED <<varsSistema, varsApi>>

(***************************************************************************)
(* Steps 7 and 8: the delays and the returned dict.                        *)
(***************************************************************************)
\* Clip without its lower limit
ClipSemLimite(x) == x

\* Series.clip(lower=0) of one value
Clip(x) == IF x < 0 THEN 0 ELSE x

\* (ranking["tempo_acumulado"] - horas_disponiveis).clip(lower=0)
Atraso(acumulado, horas) == Clip(acumulado - horas)

ComAtraso(row, horas) ==
    [ pedido |-> row.pedido, recurso |-> row.recurso,
      tempo_processamento |-> row.tempo_processamento,
      quantidade |-> row.quantidade, data_entrega |-> row.data_entrega,
      tempo_requerido |-> row.tempo_requerido,
      tempo_ajustado |-> row.tempo_ajustado, ordem |-> row.ordem,
      tempo_acumulado |-> row.tempo_acumulado,
      atraso |-> Atraso(row.tempo_acumulado, horas) ]

\* ranking["atraso"].sum()
AtrasoTotal(rk) == SumSeq([k \in DOMAIN rk |-> rk[k].atraso])

CalcularAtraso ==
    /\ pc = "ranking"
    /\ ranking' = [k \in DOMAIN ranking |-> ComAtraso(ranking[k], horas_disponiveis)]
    /\ atraso_total' = <<AtrasoTotal(ranking')>>
    /\ pc' = "atraso"
    /\ UNCHANGED <<df, parametros, trabalho, carga_recurso, gargalo,
                   resultado, erro>>
    /\ UNCHANGED <<varsSistema, varsApi>>

Retornar ==
    /\ pc = "atraso"
    /\ resultado' = << [ gargalo |-> Valor(gargalo),
                         atraso_total |-> Valor(atraso_total),
                         ranking |-> ranking ] >>
    /\ pc' = "fim"
    /\ UNCHANGED <<df, parametros, trabalho, carga_recurso, gargalo, ranking,
                   atraso_total, erro>>
    /\ UNCHANGED <<varsSistema, varsApi>>

(***************************************************************************)
(* One call of executar_ciclo_pcp(df, parametros) on any input.            *)
(***************************************************************************)
Init ==
    /\ df \in DataFrames
    /\ parametros \in ParametrosPossiveis
    /\ pc = "inicio"
    /\ trabalho = <<>>
    /\ carga_recurso = <<>>
    /\ gargalo = Indefinido
    /\ ranking = <<>>
    /\ atraso_total = Indefinido
    /\ resultado = Indefinido
    /\ erro = Indefinido
    /\ pedidos = <<>>
    /\ recursos = <<>>
    /\ recurso_gargalo_atual = "None"
    /\ retorno = Indefinido
    /\ resposta = Indefinido

Next ==
    \/ ValidarColunas
    \/ ConverterTipos
    \/ CalcularCarga
    \/ IdentificarGargalo
    \/ RankingTOC
    \/ CalcularAtraso
    \/ Retornar

Spec == Init /\ [][Next]_vars

(***************************************************************************)
(* Properties of executar_ciclo_pcp.                                       *)
(***************************************************************************)
\* positions of the call at which the named local has been assigned
TemCarga == pc \in {"carga", "gargalo", "ranking", "atraso", "fim"}
TemRanking == pc \in {"ranking", "atraso", "fim"}
TemAtraso == pc \in {"atraso", "fim"}

\* the row of carga_recurso of resource r
LinhaDeCarga(r) ==
    carga_recurso[CHOOSE g \in DOMAIN carga_recurso : carga_recurso[g].recurso = r]

\* a configuration the specification accepts: a positive capacity and no
\* policy name other than the named ones
ConfiguracaoValida ==
    /\ horas_disponiveis > 0
    /\ "scheduling_policy" \in DOMAIN parametros =>
           parametros["scheduling_policy"] \in PoliticasConhecidas

\* no order has two rows at the same resource
UmaLinhaPorPedido ==
    \A i, j \in DOMAIN df.rows :
        (df.rows[i].pedido = df.rows[j].pedido
            /\ df.rows[i].recurso = df.rows[j].recurso) => i = j

C2_ZeroPedidos ==
    (ColunasValidas(df.columns) /\ df.rows = <<>> /\ ConfiguracaoValida) =>
        /\ pc # "erro"
        /\ erro = Indefinido
        /\ pc = "fim" => /\ Valor(resultado).gargalo = "None"
                         /\ Valor(resultado).ranking = <<>>
                         /\ Valor(resultado).atraso_total = 0

\* the input columns of a table, row by row
Entrada(rows) ==
    [k \in DOMAIN rows |->
        [ pedido |-> rows[k].pedido, recurso |-> rows[k].recurso,
          tempo_processamento |-> rows[k].tempo_processamento,
          quantidade |-> rows[k].quantidade,
          data_entrega |-> rows[k].data_entrega ]]

\* the rows sorted by due date, rows of equal due date in their input order
EstavelPorData(rows) ==
    LET p == CHOOSE q \in Permutacoes(Len(rows)) :
                 \A i, j \in 1..Len(rows) : i < j =>
                     \/ rows[q[i]].data_entrega < rows[q[j]].data_entrega
                     \/ /\ rows[q[i]].data_entrega = rows[q[j]].data_entrega
                        /\ q[i] < q[j]
    IN  [k \in DOMAIN rows |-> rows[p[k]]]

RECURSIVE Acumulado(_, _)
Acumulado(rk, k) ==
    IF k = 0 THEN 0 ELSE Acumulado(rk, k - 1) + rk[k].tempo_ajustado

RECURSIVE SomaAtrasos(_, _)
SomaAtrasos(rk, k) ==
    IF k = 0 THEN 0 ELSE SomaAtrasos(rk, k - 1) + rk[k].atraso

\* C4: tempo_acumulado is the running sum of the adjusted times and does not
\* decrease along the ranks, atraso = max(0, tempo_acumulado - capacity), and
\* the returned atraso_total is the sum of the delays.
C4_AcumuladoAtraso ==
    TemAtraso =>
        /\ \A k \in DOMAIN ranking :
              /\ ranking[k].tempo_acumulado = Acumulado(ranking, k)
              /\ k > 1 => ranking[k - 1].tempo_acumulado <= ranking[k].tempo_acumulado
              /\ ranking[k].atraso >= 0
              /\ ranking[k].atraso >= ranking[k].tempo_acumulado - horas_disponiveis
              /\ \/ ranking[k].atraso = 0
                 \/ ranking[k].atraso = ranking[k].tempo_acumulado - horas_disponiveis
        /\ Valor(atraso_total) = SomaAtrasos(ranking, Len(ranking))
        /\ pc = "fim" => /\ Valor(resultado).atraso_total = SomaAtrasos(ranking, Len(ranking))
                         /\ Valor(resultado).ranking = ranking

\* C4 witness: a returned ranking of two entries, the first on time and the
\* second late.
C4_Witness ==
    /\ pc = "fim"
    /\ Len(ranking) >= 2
    /\ ranking[1].atraso = 0
    /\ ranking[2].atraso > 0
    /\ ranking[1].tempo_acumulado > 0
    /\ Valor(resultado).atraso_total > 0

\* C5: with a capacity that is not positive nothing is aggregated, no
\* utilization is computed and nothing is returned: the call is rejected.
C5_CapacidadeRejeitada ==
    horas_disponiveis <= 0 =>
        /\ ~TemCarga
        /\ carga_recurso = <<>>
        /\ resultado = Indefinido

\* C6: with a required column missing the call raises the validation error
\* before anything else runs and returns nothing; the message's expected and
\* received sets name exactly the missing columns and the columns received.
C6_ValidacaoAntesDeTudo ==
    ~(colunas_obrigatorias \subseteq df.columns) =>
        /\ pc \in {"inicio", "erro"}
        /\ trabalho = <<>> /\ carga_recurso = <<>> /\ ranking = <<>>
        /\ gargalo = Indefinido /\ atraso_total = Indefinido
        /\ resultado = Indefinido
        /\ pc = "erro" =>
              /\ Valor(erro).tipo = "ValueError"
              /\ Valor(erro).recebido = df.columns
              /\ Valor(erro).esperado \ Valor(erro).recebido
                     = colunas_obrigatorias \ df.columns

\* C6 witness: the call has failed on a sheet that has some of the required
\* columns, lacks others and carries a column that is not required.
C6_Witness ==
    /\ pc = "erro"
    /\ Valor(erro).tipo = "ValueError"
    /\ colunas_obrigatorias \cap df.columns # {}
    /\ colunas_obrigatorias \ df.columns # {}
    /\ df.columns \ colunas_obrigatorias # {}

\* the sum of f over the index set S
RECURSIVE SomaSobre(_, _)
SomaSobre(f, S) ==
    IF S = {} THEN 0
    ELSE LET i == CHOOSE x \in S : TRUE IN f[i] + SomaSobre(f, S \ {i})

\* C7: every row has tempo_ajustado = quantidade * tempo_processamento /
\* eficiencia + setup; the load table has one row for each resource of the
\* input and no other, whose carga_total is the sum of tempo_ajustado over the
\* rows of that resource and whose utilizacao is carga_total / capacidade.
C7_CargaUtilizacao ==
    TemCarga =>
        /\ Len(trabalho) = Len(df.rows)
        /\ \A i \in DOMAIN trabalho :
              /\ trabalho[i].recurso = df.rows[i].recurso
              /\ trabalho[i].tempo_processamento = df.rows[i].tempo_processamento
              /\ (trabalho[i].tempo_ajustado - setup) * eficiencia.num
                     = trabalho[i].quantidade * trabalho[i].tempo_processamento
                           * eficiencia.den
        /\ {carga_recurso[g].recurso : g \in DOMAIN carga_recurso}
               = {df.rows[i].recurso : i \in DOMAIN df.rows}
        /\ \A g, h \in DOMAIN carga_recurso :
              carga_recurso[g].recurso = carga_recurso[h].recurso => g = h
        /\ \A g \in DOMAIN carga_recurso :
              LET c == carga_recurso[g]
                  doRecurso == {i \in DOMAIN trabalho : trabalho[i].recurso = c.recurso}
              IN  /\ c.carga_total
                         = SomaSobre([i \in DOMAIN trabalho |-> trabalho[i].tempo_ajustado],
                                     doRecurso)
                  /\ c.capacidade = horas_disponiveis
                  /\ c.utilizacao.den = c.capacidade
                  /\ c.utilizacao.num = c.carga_total

\* C7 witness: both resources carry load under an efficiency of 1/2, a setup
\* of 1 and a capacity of 2; one of them carries 2 * 1 / 0.5 + 1 = 5 hours.
C7_Witness ==
    /\ TemCarga
    /\ Len(carga_recurso) = 2
    /\ eficiencia.den = 2
    /\ setup = 1
    /\ horas_disponiveis = 2
    /\ \E g \in DOMAIN carga_recurso :
          /\ carga_recurso[g].carga_total = 5
          /\ carga_recurso[g].utilizacao = [num |-> 5, den |-> 2]

\* C8: the ranking holds exactly the orders with work at the bottleneck, each
\* once, with ranks 1..N and due dates that do not decrease (stated for a
\* valid configuration).
C8_RankingExato ==
    (TemRanking /\ ConfiguracaoValida) =>
        /\ \A k \in DOMAIN ranking :
              /\ ranking[k].recurso = Valor(gargalo)
              /\ ranking[k].ordem = k
              /\ k > 1 => ranking[k - 1].data_entrega <= ranking[k].data_entrega
        /\ {ranking[k].pedido : k \in DOMAIN ranking}
               = {df.rows[i].pedido :
                      i \in {j \in DOMAIN df.rows : df.rows[j].recurso = Valor(gargalo)}}
        /\ \A k, l \in DOMAIN ranking : ranking[k].pedido = ranking[l].pedido => k = l

\* C9: under the global tardiness policy the returned ranking holds all the
\* rows of the input, whatever their resource, and a policy name that is not
\* one of the named policies is rejected: nothing is computed or returned
\* (stated for a positive capacity).
C9_PoliticaSelecionavel ==
    ("scheduling_policy" \in DOMAIN parametros /\ horas_disponiveis > 0) =>
        /\ (parametros["scheduling_policy"] = "global_tardiness" /\ pc = "fim") =>
               Len(Valor(resultado).ranking) = Len(df.rows)
        /\ parametros["scheduling_policy"] \notin PoliticasConhecidas =>
               ~TemCarga /\ resultado = Indefinido

(***************************************************************************)
(* The enterprise system (engine/pcp_empresarial.py).  Its base classes     *)
(* (Pedido, Recurso, StatusPedido, GestorBuffer, SistemaPCP_TOC) live in    *)
(* the module pcp_toc_jobshop; what the model needs of them is taken from   *)
(* the specification and marked as such.                                   *)
(***************************************************************************)
\* largest number of orders the system holds
MaxPedidos == 2

\* largest number of orders in one imported file
MaxPorArquivo == 1

\* StatusPedido, in the order of its forward transitions
StatusPedido == <<"PENDING", "IN_PROGRESS", "CONCLUIDO">>

\* buffer penetrations (percent) a planning run may assign
Penetracoes == {10, 50, 90}

\* the thresholds t1 < t2 of the buffer zones
LimiarAmarelo == 33
LimiarVermelho == 66

\* the instants (in hours) at which an import may run: datetime.now()
Instantes == {12}

\* the order ids a file may hold, in ascending (lexicographic) order
IdsPedido == <<"PED-001", "PED-002">>

\* the "pedidos" entries a JSON file may hold
EntradasPedido ==
    [ id_pedido : Range(IdsPedido), data_entrega : {2, 5},
      prioridade : {5, 8} ]

\* the "recursos" lists a JSON file may hold
EntradasRecursos ==
    { <<[nome |-> "Torno", capacidade_horas_dia |-> 16]>>,
      <<[nome |-> "Torno", capacidade_horas_dia |-> 8],
        [nome |-> "Fresa", capacidade_horas_dia |-> 8]>> }

Arquivos ==
    [ recursos : EntradasRecursos, pedidos : SeqAte(EntradasPedido, MaxPorArquivo) ]

\* Recurso(nome, capacidade): a new resource carries no planned load
Recurso(nome, capacidade) ==
    [ nome |-> nome, capacidade_horas_dia |-> capacidade, carga_planejada |-> 0 ]

\* Pedido(...): a new order is pending and has no buffer penetration yet
Pedido(id_pedido, data_entrada, data_entrega, prioridade) ==
    [ id_pedido |-> id_pedido, data_entrada |-> data_entrada,
      data_entrega |-> data_entrega, prioridade |-> prioridade,
      status |-> StatusPedido[1], penetracao_buffer |-> 0 ]

\* datetime.strptime(data, "%Y-%m-%d"): the midnight of the day, in hours
StrpTime(dia) == dia * 24

\* the dict built by "for rec in dados['recursos']: recursos[nome] = ..."
ImportarRecursos(lista) ==
    [ n \in {lista[i].nome : i \in DOMAIN lista} |->
        LET ultimo == CHOOSE i \in DOMAIN lista :
                          /\ lista[i].nome = n
                          /\ \A j \in DOMAIN lista : lista[j].nome = n => j <= i
        IN  Recurso(n, lista[ultimo].capacidade_horas_dia) ]

\* the list built by "for ped in dados['pedidos']: pedidos.append(...)"
ImportarPedidos(lista, data_atual) ==
    [ i \in DOMAIN lista |->
        Pedido(lista[i].id_pedido, data_atual, StrpTime(lista[i].data_entrega),
               lista[i].prioridade) ]

\* self.recursos[nome] = recurso for every imported resource
Atualizar(dict, novos) ==
    [ n \in DOMAIN dict \cup DOMAIN novos |->
        IF n \in DOMAIN novos THEN novos[n] ELSE dict[n] ]

\* carregar_dados_json(caminho_arquivo)
CarregarDadosJson ==
    \E arq \in Arquivos, data_atual \in Instantes :
        /\ Len(pedidos) + Len(arq.pedidos) <= MaxPedidos
        /\ recursos' = Atualizar(recursos, ImportarRecursos(arq.recursos))
        /\ pedidos' = pedidos \o ImportarPedidos(arq.pedidos, data_atual)
        /\ retorno' = Indefinido
        /\ UNCHANGED recurso_gargalo_atual
        /\ UNCHANGED <<varsEngine, varsApi>>

\* str(cell).strip(): the cell's text without its leading and trailing
\* blanks, over the texts the sheets here hold
Strip(texto) ==
    CASE texto = " PED-001 " -> "PED-001"
      [] texto = "Torno "    -> "Torno"
      [] OTHER               -> texto

\* row_ped.get('Prioridade', 5): the priority of a sheet without the column
PrioridadePadrao == 5

\* the rows the sheet 'Pedidos' may hold; Prioridade is <<>> when the sheet
\* has no such column
LinhasPedidosExcel ==
    [ ID_Pedido : Range(IdsPedido) \cup {" PED-001 "}, Data_Entrega : {2, 5},
      Prioridade : Opcional({8}) ]

\* a column is there for every row of a sheet or for none
SheetsPedidos ==
    { sh \in SeqAte(LinhasPedidosExcel, MaxPorArquivo) :
        \A i, j \in DOMAIN sh : (sh[i].Prioridade = <<>>) <=> (sh[j].Prioridade = <<>>) }

\* the sheets 'Recursos' a workbook may hold
SheetsRecursos ==
    { <<[Recurso |-> "Torno ", Capacidade_Horas_Dia |-> 16]>>,
      <<[Recurso |-> "Torno", Capacidade_Horas_Dia |-> 8],
        [Recurso |-> "Fresa", Capacidade_Horas_Dia |-> 8]>> }

ArquivosExcel == [ Recursos : SheetsRecursos, Pedidos : SheetsPedidos ]

\* importar_recursos_excel: recursos[nome] = Recurso(nome, capacidade) for
\* every row, a later row replacing an earlier one of the same name
ImportarRecursosExcel(sheet) ==
    [ n \in {Strip(sheet[i].Recurso) : i \in DOMAIN sheet} |->
        LET ultimo == CHOOSE i \in DOMAIN sheet :
                          /\ Strip(sheet[i].Recurso) = n
                          /\ \A j \in DOMAIN sheet : Strip(sheet[j].Recurso) = n => j <= i
        IN  Recurso(n, sheet[ultimo].Capacidade_Horas_Dia) ]

\* importar_pedidos_excel: one Pedido per row of the sheet, in sheet order
ImportarPedidosExcel(sheet, data_atual) ==
    [ i \in DOMAIN sheet |->
        Pedido(Strip(sheet[i].ID_Pedido), data_atual, ToDatetime(sheet[i].Data_Entrega),
               IF sheet[i].Prioridade = <<>> THEN PrioridadePadrao
               ELSE sheet[i].Prioridade[1]) ]

\* carregar_dados_excel(caminho_arquivo)
CarregarDadosExcel ==
    \E arq \in ArquivosExcel, data_atual \in Instantes :
        /\ Len(pedidos) + Len(arq.Pedidos) <= MaxPedidos
        /\ recursos' = Atualizar(recursos, ImportarRecursosExcel(arq.Recursos))
        /\ pedidos' = pedidos \o ImportarPedidosExcel(arq.Pedidos, data_atual)
        /\ retorno' = Indefinido
        /\ UNCHANGED recurso_gargalo_atual
        /\ UNCHANGED <<varsEngine, varsApi>>

\* an external event moves one order one status forward
AvancarStatus ==
    \E i \in DOMAIN pedidos, k \in 1..(Len(StatusPedido) - 1) :
        /\ pedidos[i].status = StatusPedido[k]
        /\ pedidos' = [pedidos EXCEPT ![i].status = StatusPedido[k + 1]]
        /\ retorno' = Indefinido
        /\ UNCHANGED <<recursos, recurso_gargalo_atual>>
        /\ UNCHANGED <<varsEngine, varsApi>>

\* executar_planejamento(): recomputes the buffer penetration of the active
\* orders and the bottleneck pointer
ExecutarPlanejamento ==
    /\ pedidos # <<>>
    /\ DOMAIN recursos # {}
    /\ \E pen \in [DOMAIN pedidos -> Penetracoes] :
          pedidos' = [ i \in DOMAIN pedidos |->
                         IF pedidos[i].status = "CONCLUIDO" THEN pedidos[i]
                         ELSE [pedidos[i] EXCEPT !.penetracao_buffer = pen[i]] ]
    /\ \E g \in DOMAIN recursos : recurso_gargalo_atual' = g
    /\ retorno' = Indefinido
    /\ UNCHANGED recursos
    /\ UNCHANGED <<varsEngine, varsApi>>

\* gestor_buffer.classificar_zona_buffer(penetracao)
ClassificarZonaBuffer(penetracao) ==
    IF penetracao < LimiarAmarelo THEN "VERDE"
    ELSE IF penetracao < LimiarVermelho THEN "AMARELO"
    ELSE "VERMELHO"

\* Recurso.calcular_utilizacao(), in percent
CalcularUtilizacao(r) == (r.carga_planejada * 100) \div r.capacidade_horas_dia

\* (a - b).days for two instants in hours
Days(a, b) == (a - b) \div 24

\* f"{soma / n:.1f}" as a number of tenths: the quotient rounded to one
\* decimal, an exact half going to the even digit
Formatar1(soma, n) ==
    LET q == (10 * soma) \div n
        r == (10 * soma) % n
    IN  IF 2 * r < n THEN q
        ELSE IF 2 * r > n THEN q + 1
        ELSE IF q % 2 = 0 THEN q ELSE q + 1

\* [p for p in sistema.pedidos if p.status != StatusPedido.CONCLUIDO]
PedidosAtivos(ps) == SelectSeq(ps, LAMBDA p : p.status # "CONCLUIDO")

\* sum(1 for p in pedidos_ativos if classificar_zona_buffer(...) == zona)
ContarZona(ativos, zona) ==
    Len(SelectSeq(ativos, LAMBDA p : ClassificarZonaBuffer(p.penetracao_buffer) = zona))

\* np.mean([r.calcular_utilizacao() for r in sistema.recursos.values()]),
\* formatted: "nan" for no resources
UtilizacaoMedia(rs) ==
    IF DOMAIN rs = {} THEN [nan |-> TRUE, decimos |-> 0]
    ELSE [ nan |-> FALSE,
           decimos |-> Formatar1(SomaSobre([n \in DOMAIN rs |-> CalcularUtilizacao(rs[n])],
                                           DOMAIN rs),
                                 Cardinality(DOMAIN rs)) ]

\* lead_times = [(p.data_entrega - p.data_entrada).days for p in sistema.pedidos]
LeadTimes(ps) == [i \in DOMAIN ps |-> Days(ps[i].data_entrega, ps[i].data_entrada)]

\* np.mean(lead_times) if lead_times else 0, formatted
LeadTimeMedio(ps) ==
    IF ps = <<>> THEN 0 ELSE Formatar1(SumSeq(LeadTimes(ps)), Len(ps))

\* the "Valor" column of the KPI table
Kpis(ps, rs, gargalo_atual) ==
    [ relatorio |-> "kpis",
      total_pedidos |-> Len(ps),
      pedidos_verde |-> ContarZona(PedidosAtivos(ps), "VERDE"),
      pedidos_amarelo |-> ContarZona(PedidosAtivos(ps), "AMARELO"),
      pedidos_vermelho |-> ContarZona(PedidosAtivos(ps), "VERMELHO"),
      utilizacao_media |-> UtilizacaoMedia(rs),
      lead_time_medio |-> LeadTimeMedio(ps),
      recurso_gargalo |-> gargalo_atual,
      total_recursos |-> Cardinality(DOMAIN rs) ]

\* RelatoriosAvancados.relatorio_kpis(sistema)
RelatorioKpis ==
    /\ retorno' = <<Kpis(pedidos, recursos, recurso_gargalo_atual)>>
    /\ UNCHANGED <<pedidos, recursos, recurso_gargalo_atual>>
    /\ UNCHANGED <<varsEngine, varsApi>>

\* the values of the top_n argument: none, fewer than, as many as and more
\* than the orders a snapshot can hold
TopNs == 0..(MaxPedidos + 1)

\* sorted(pedidos_ativos, key=lambda p: p.penetracao_buffer, reverse=True):
\* a stable sort, orders of equal penetration keep their order in the list
SortedPenetracao(ativos) ==
    LET n == Len(ativos)
        Antes(i, j) ==
            \/ ativos[i].penetracao_buffer > ativos[j].penetracao_buffer
            \/ /\ ativos[i].penetracao_buffer = ativos[j].penetracao_buffer
               /\ i < j
        Posicao(i) == 1 + Cardinality({j \in 1..n : Antes(j, i)})
    IN  [k \in 1..n |-> ativos[CHOOSE i \in 1..n : Posicao(i) = k]]

\* lista[:top_n] for top_n >= 0
Fatia(lista, top_n) ==
    [k \in 1..(IF top_n < Len(lista) THEN top_n ELSE Len(lista)) |-> lista[k]]

\* the row dados.append({...}) adds for one order (the penetrations here are
\* whole percents, which round(_, 1) leaves as they are; 'Cliente' is a
\* label copied through and is left out)
LinhaCritica(p, data_atual) ==
    [ Pedido |-> p.id_pedido,
      Penetracao |-> p.penetracao_buffer,
      Zona |-> ClassificarZonaBuffer(p.penetracao_buffer),
      DiasRestantes |-> Days(p.data_entrega, data_atual),
      Prioridade |-> p.prioridade,
      Status |-> p.status ]

\* the rows of the critical-orders table
PedidosCriticos(ps, top_n, data_atual) ==
    LET pedidos_criticos == Fatia(SortedPenetracao(PedidosAtivos(ps)), top_n)
    IN  [k \in DOMAIN pedidos_criticos |-> LinhaCritica(pedidos_criticos[k], data_atual)]

\* RelatoriosAvancados.relatorio_pedidos_criticos(sistema, top_n), called at
\* the instant sistema.data_atual
RelatorioPedidosCriticos ==
    \E top_n \in TopNs, data_atual \in Instantes :
        /\ retorno' = <<[ relatorio |-> "pedidos_criticos", top_n |-> top_n,
                          linhas |-> PedidosCriticos(pedidos, top_n, data_atual) ]>>
        /\ UNCHANGED <<pedidos, recursos, recurso_gargalo_atual>>
        /\ UNCHANGED <<varsEngine, varsApi>>

(***************************************************************************)
(* The system from its construction on.                                    *)
(***************************************************************************)
InitSistema ==
    /\ df = [columns |-> {}, rows |-> <<>>]
    /\ parametros = <<>>
    /\ pc = "inicio"
    /\ trabalho = <<>>
    /\ carga_recurso = <<>>
    /\ gargalo = Indefinido
    /\ ranking = <<>>
    /\ atraso_total = Indefinido
    /\ resultado = Indefinido
    /\ erro = Indefinido
    /\ pedidos = <<>>
    /\ recursos = <<>>
    /\ recurso_gargalo_atual = "None"
    /\ retorno = Indefinido
    /\ resposta = Indefinido

NextSistema ==
    \/ CarregarDadosExcel
    \/ CarregarDadosJson
    \/ AvancarStatus
    \/ ExecutarPlanejamento
    \/ RelatorioKpis
    \/ RelatorioPedidosCriticos

SpecSistema == InitSistema /\ [][NextSistema]_vars

(***************************************************************************)
(* Properties of the reports.                                              *)
(***************************************************************************)
EhKpis == Definido(retorno) /\ Valor(retorno).relatorio = "kpis"

\* the positions of the active orders
Ativos == {i \in DOMAIN pedidos : pedidos[i].status # "CONCLUIDO"}

\* every order id occurs once in the snapshot
IdsUnicos ==
    \A i, j \in DOMAIN pedidos : pedidos[i].id_pedido = pedidos[j].id_pedido => i = j

\* C10: the KPI report counts the zones and averages the lead time (in days,
\* due date minus entry date) over exactly the orders that are not
\* CONCLUIDO (stated for a snapshot of distinct order ids with at least one
\* active order).
C10_KpisSobreAtivos ==
    (EhKpis /\ IdsUnicos /\ Ativos # {}) =>
        /\ Valor(retorno).pedidos_verde
               = Cardinality({i \in Ativos : pedidos[i].penetracao_buffer < LimiarAmarelo})
        /\ Valor(retorno).pedidos_vermelho
               = Cardinality({i \in Ativos : pedidos[i].penetracao_buffer >= LimiarVermelho})
        /\ Valor(retorno).pedidos_verde + Valor(retorno).pedidos_amarelo
               + Valor(retorno).pedidos_vermelho = Cardinality(Ativos)
        /\ Valor(retorno).lead_time_medio
               = Formatar1(SomaSobre([i \in DOMAIN pedidos |->
                                        (pedidos[i].data_entrega - pedidos[i].data_entrada) \div 24],
                                     Ativos),
                           Cardinality(Ativos))

EhCriticos == Definido(retorno) /\ Valor(retorno).relatorio = "pedidos_criticos"

\* position of an order id in ascending order
OrdemId(id) == CHOOSE i \in DOMAIN IdsPedido : IdsPedido[i] = id

\* a comes strictly before b: higher penetration, then higher priority, then
\* smaller order id
MaisCritico(a, b) ==
    \/ a.penetracao_buffer > b.penetracao_buffer
    \/ /\ a.penetracao_buffer = b.penetracao_buffer
       /\ \/ a.prioridade > b.prioridade
          \/ /\ a.prioridade = b.prioridade
             /\ OrdemId(a.id_pedido) < OrdemId(b.id_pedido)

\* the ids of the active orders in the one order the tie-breaks determine
IdsEmOrdemCritica ==
    LET Posicao(i) == 1 + Cardinality({j \in Ativos : MaisCritico(pedidos[j], pedidos[i])})
    IN  [k \in 1..Cardinality(Ativos) |->
            pedidos[CHOOSE i \in Ativos : Posicao(i) = k].id_pedido]

\* C11: the critical-orders report with top_n = N lists min(N, number of
\* active orders) orders, none of them CONCLUIDO, and they are the first of
\* the active orders sorted by penetration descending, then priority
\* descending, then order id ascending, whatever the order of the snapshot
\* (stated for a snapshot of distinct order ids whose active orders all got
\* their penetration from a planning run).
C11_CriticosDeterminados ==
    (/\ EhCriticos
     /\ IdsUnicos
     /\ \A i \in Ativos : pedidos[i].penetracao_buffer \in Penetracoes) =>
        LET linhas == Valor(retorno).linhas
            n == Valor(retorno).top_n
            m == IF n < Cardinality(Ativos) THEN n ELSE Cardinality(Ativos)
        IN  /\ Len(linhas) = m
            /\ \A k \in DOMAIN linhas : linhas[k].Status # "CONCLUIDO"
            /\ \A k \in DOMAIN linhas : linhas[k].Pedido = IdsEmOrdemCritica[k]

(***************************************************************************)
(* Properties of the loads.                                                *)
(***************************************************************************)
\* C12: after any sequence of carregar_dados_excel and carregar_dados_json
\* calls every order id occurs at most once in the list of orders, and every
\* resource name maps to one resource, the one of that name.
C12_IdentidadesUnicas ==
    /\ \A id \in Range(IdsPedido) :
           Cardinality({i \in DOMAIN pedidos : pedidos[i].id_pedido = id}) <= 1
    /\ \A n \in DOMAIN recursos : recursos[n].nome = n

(***************************************************************************)
(* The endpoint POST /upload_pedidos.                                      *)
(***************************************************************************)
\* the sheets an uploaded workbook may hold: those of DataFrames, and
\* one-row sheets whose quantity cell is empty
Planilhas ==
    DataFrames \cup
    { [columns |-> colunas_obrigatorias, rows |-> <<row>>] :
        row \in [ pedido : Pedidos, recurso : Range(Recursos),
                  tempo_processamento : Tempos, quantidade : {CelulaVazia},
                  data_entrega : Datas ] }

\* pd.read_excel(file.file) on an upload that is no workbook
ErroLeitura ==
    [ tipo |-> "ValueError",
      mensagem |-> "Excel file format cannot be determined, you must specify an engine manually." ]

\* the parametros dict the endpoint builds from the form fields
ParametrosApi(horas, ef, st) ==
    [ k \in {"horas_disponiveis_dia", "eficiencia_media", "tempo_setup_medio",
             "recursos"} |->
        CASE k = "horas_disponiveis_dia" -> horas
          [] k = "eficiencia_media"      -> ef
          [] k = "tempo_setup_medio"     -> st
          [] k = "recursos"              ->
                 [ Corte |-> [quantidade |-> 1], Usinagem |-> [quantidade |-> 1],
                   Montagem |-> [quantidade |-> 1] ] ]

\* the request arrives: nothing was read or computed yet
InitApi ==
    /\ df = [columns |-> {}, rows |-> <<>>]
    /\ parametros = <<>>
    /\ pc = "recebido"
    /\ trabalho = <<>>
    /\ carga_recurso = <<>>
    /\ gargalo = Indefinido
    /\ ranking = <<>>
    /\ atraso_total = Indefinido
    /\ resultado = Indefinido
    /\ erro = Indefinido
    /\ pedidos = <<>>
    /\ recursos = <<>>
    /\ recurso_gargalo_atual = "None"
    /\ retorno = Indefinido
    /\ resposta = Indefinido

\* steps 1 and 2 of upload_pedidos: read the workbook, build parametros; the
\* call of executar_ciclo_pcp starts (pc = "inicio") unless the read raised
LerArquivo ==
    /\ pc = "recebido"
    /\ \/ /\ pc' = "erro"
          /\ erro' = <<ErroLeitura>>
          /\ UNCHANGED <<df, parametros>>
       \/ /\ \E planilha \in Planilhas, horas \in HorasPossiveis,
                ef \in EficienciasPossiveis, st \in SetupsPossiveis :
                /\ df' = planilha
                /\ parametros' = ParametrosApi(horas, ef, st)
          /\ pc' = "inicio"
          /\ erro' = erro
    /\ UNCHANGED <<trabalho, carga_recurso, gargalo, ranking, atraso_total,
                   resultado, resposta>>
    /\ UNCHANGED varsSistema

\* a value of the context that is a text
Texto(s) == [texto |-> s]

\* a value of the context that is a number
Numero(n) == [numero |-> n]

\* str(e): the message of the exception, without its type
Str(e) == [k \in DOMAIN e \ {"tipo"} |-> e[k]]

\* ranking_df.to_dict(orient="records"): one dict per row, in row order
ToDictRecords(rk) == [k \in 1..Len(rk) |-> rk[k]]

\* the ValueError raised for a call that returned None
ErroRetornoNone ==
    [ tipo |-> "ValueError", mensagem |-> "executar_ciclo_pcp retornou None" ]

\* RespostaErro with "erro": None
RespostaErroSemMensagem(e) ==
    [ gargalo |-> "ERRO", atraso_total |-> Texto("ERRO"), ranking |-> <<>>,
      erro |-> Indefinido ]

\* the context of the except branch
RespostaErro(e) ==
    [ gargalo |-> "ERRO", atraso_total |-> Texto("ERRO"), ranking |-> <<>>,
      erro |-> <<Str(e)>> ]

\* the context of the try branch; "erro": None
RespostaSucesso(res) ==
    [ gargalo |-> res.gargalo, atraso_total |-> Numero(res.atraso_total),
      ranking |-> ToDictRecords(res.ranking), erro |-> Indefinido ]

\* steps 3 to 5: the call returned; a None raises inside the try and is
\* answered by the except branch
ResponderSucesso ==
    /\ pc = "fim"
    /\ resposta' = IF resultado = Indefinido
                   THEN <<RespostaErro(ErroRetornoNone)>>
                   ELSE <<RespostaSucesso(Valor(resultado))>>
    /\ pc' = "respondido"
    /\ UNCHANGED <<df, parametros, trabalho, carga_recurso, gargalo, ranking,
                   atraso_total, resultado, erro>>
    /\ UNCHANGED varsSistema

\* except Exception as e: the read or the call raised
ResponderErro ==
    /\ pc = "erro"
    /\ resposta' = <<RespostaErro(Valor(erro))>>
    /\ pc' = "respondido"
    /\ UNCHANGED <<df, parametros, trabalho, carga_recurso, gargalo, ranking,
                   atraso_total, resultado, erro>>
    /\ UNCHANGED varsSistema

NextApi ==
    \/ LerArquivo
    \/ Next
    \/ ResponderSucesso
    \/ ResponderErro

SpecApi == InitApi /\ [][NextApi]_vars

\* C13: upload_pedidos answers every request whose read or engine call has
\* ended: a request with a failure (read error, validation error, conversion
\* error, index error) gets gargalo = "ERRO", atraso_total = "ERRO", an empty
\* ranking and erro = the failure's message; a request without one gets
\* erro = None and the gargalo, atraso_total and ranking rows the engine
\* returned; a failure is never answered with erro = None.
C13_NuncaPropaga ==
    /\ pc \in {"recebido", "inicio", "validado", "convertido", "carga", "gargalo",
               "ranking", "atraso", "fim", "erro", "respondido"}
    /\ pc \in {"fim", "erro"} => ENABLED (ResponderSucesso \/ ResponderErro)
    /\ pc = "respondido" <=> Definido(resposta)
    /\ (Definido(resposta) /\ Definido(erro)) =>
           /\ resultado = Indefinido
           /\ Valor(resposta).gargalo = "ERRO"
           /\ Valor(resposta).atraso_total = Texto("ERRO")
           /\ Valor(resposta).ranking = <<>>
           /\ Valor(resposta).erro # Indefinido
           /\ Valor(Valor(resposta).erro) = Str(Valor(erro))
           /\ \/ /\ Valor(erro).tipo = "ValueError"
                 /\ "esperado" \in DOMAIN Valor(erro)
                 /\ Valor(Valor(resposta).erro).recebido = df.columns
              \/ "mensagem" \in DOMAIN Valor(Valor(resposta).erro)
    /\ (Definido(resposta) /\ ~Definido(erro)) =>
           /\ Definido(resultado)
           /\ Valor(resposta).erro = Indefinido
           /\ Valor(resposta).gargalo = Valor(resultado).gargalo
           /\ Valor(resposta).atraso_total = Numero(Valor(resultado).atraso_total)
           /\ Valor(resposta).ranking = Valor(resultado).ranking

\* C13 witness: the engine failed on a sheet without rows (.iloc[0] on the
\* empty load table) and the endpoint has answered with the error context.
C13_Witness ==
    /\ pc = "respondido"
    /\ ColunasValidas(df.columns) /\ df.rows = <<>>
    /\ Valor(erro) = ErroIndice
    /\ Valor(resposta) = [ gargalo |-> "ERRO", atraso_total |-> Texto("ERRO"),
                           ranking |-> <<>>,
                           erro |-> <<[mensagem |-> ErroIndice.mensagem]>> ]

====
